---- MODULE Spec2Model ----
(***************************************************************************)
(* GMaps (src/PokeAlarm/LocationServices/GMaps.py): a rate-limited,        *)
(* caching client with three synchronized operations, geocode,             *)
(* reverse_geocode and distance_matrix, that share one sliding rate        *)
(* window in _make_request.                                                *)
(*                                                                         *)
(* Conventions.  A Python str is a sequence of tokens, so that             *)
(* concatenation is \o and the empty string is <<>>.  A dict is a function *)
(* whose DOMAIN is its key set; a JSON object is a record.  A coordinate   *)
(* is a pair of integers in units of 1e-6 degree.  Time is an integer      *)
(* number of clock ticks, Second of them to one second.                    *)
(***************************************************************************)
EXTENDS Integers, Sequences, FiniteSets, TLC

VARIABLES
    now,           \* time.time(), in ticks
    _window,       \* self._window, a deque(maxlen = _queries_per_second)
    _dm_hist,      \* self._dm_hist
    cache_geocode, \* the entries behind self._cache.geocode
    cache_reverse, \* the entries behind self._cache.reverse_geocode
    lock,          \* the semaphore of each synchronized method
    pc,            \* where each caller is
    op,            \* the method a caller is in
    arg,           \* the arguments of the call
    key,           \* the normalised key computed by the call
    wake,          \* when a sleeping caller's time.sleep returns
    ret,           \* what the call gave back to its caller
    sent,          \* the last _queries_per_second + 1 dispatch times (history)
    dm_done,       \* keys of completed valid-mode distance_matrix calls (history)
    utcnow,        \* the <<year, month>> of datetime.utcnow()
    rnd            \* the next random.random(), in units of 1 / RandomSteps

vars == <<now, _window, _dm_hist, cache_geocode, cache_reverse, lock,
          pc, op, arg, key, wake, ret, sent, dm_done, utcnow, rnd>>

-----------------------------------------------------------------------------
(* Bounds of the model *)

\* capacity of the rate window; the program's value is 50 (GMaps.py:29)
_queries_per_second == 2
\* clock ticks per second
Second == 2
\* the clock stops here
MaxTime == 3
\* cache_fuzz_days as given to __init__ (GMaps.py:33, 38)
_max_fuzz_days == 2
\* random.random() takes the values 0, 1/RandomSteps, ..., below 1
RandomSteps == 4

Procs == {"p1", "p2"}

-----------------------------------------------------------------------------
(* Values *)

None == <<>>
EmptyDict == [k \in {} |-> k]
Get(d, k, default) == IF k \in DOMAIN d THEN d[k] ELSE default

Unknown == [EMPTY |-> <<>>, SMALL |-> <<"?">>, REGULAR |-> <<"unknown">>]

TRAVEL_MODES == {"walking", "biking", "driving", "transit"}

OPS == {"geocode", "reverse_geocode", "distance_matrix"}

\* the letters of the addresses below, as (upper, lower)
CasePairs == {<<"E", "e">>, <<"L", "l">>, <<"O", "o">>, <<"K", "k">>}

LowerChar(c) ==
    IF \E pr \in CasePairs : pr[1] = c
    THEN (CHOOSE pr \in CasePairs : pr[1] = c)[2]
    ELSE c

\* the address used as it came
lowerNot(s) == s

lower(s) == [i \in DOMAIN s |-> LowerChar(s[i])]

\* f"{x:.5f}": x in 1e-6 degree rounded to the nearest 1e-5 degree
Fmt5(x) == ToString((x + 5) \div 10)

\* the two numbers in the other order
FmtLngLat(c) == <<Fmt5(c[2]), ",", Fmt5(c[1])>>

\* f"{latlng[0]:.5f},{latlng[1]:.5f}"
FmtLatLng(c) == <<Fmt5(c[1]), ",", Fmt5(c[2])>>

\* f"{origin}:{dest}"
DmKey(origin, dest) == FmtLatLng(origin) \o <<":">> \o FmtLatLng(dest)

-----------------------------------------------------------------------------
(* Inputs of the callers *)

Addresses == {<<"E", "l">>, <<"e", "l">>, <<"O", "k">>}

\* two coordinates that differ in the sixth decimal only
Coords == {<<37422001, -122084001>>, <<37422004, -122084001>>}

Dest == <<37100000, -122100000>>

CallModes == {"driving", "transit", "flying"}

Args(o) ==
    CASE o = "geocode" -> {[address |-> a] : a \in Addresses}
      [] o = "reverse_geocode" -> {[latlng |-> c] : c \in Coords}
      [] o = "distance_matrix" ->
            {[mode |-> m, origin |-> c, dest |-> Dest] :
                m \in CallModes, c \in Coords}

NoArg == EmptyDict

-----------------------------------------------------------------------------
(* What the transport can answer: session.get times out, gives up, or      *)
(* returns an HTTP response whose body is or is not JSON.                  *)

Resp(h, j, b) == [http |-> h, json |-> j, body |-> b]

NoResp == Resp("none", FALSE, EmptyDict)

Failures ==
    { Resp("timeout", FALSE, EmptyDict),
      Resp("connerr", FALSE, EmptyDict),
      Resp("error", TRUE, [status |-> "REQUEST_DENIED"]),
      Resp("error", FALSE, EmptyDict),
      Resp("ok", FALSE, EmptyDict),
      Resp("ok", TRUE, [status |-> "OVER_QUERY_LIMIT"]),
      Resp("ok", TRUE, [status |-> "REQUEST_DENIED"]),
      Resp("ok", TRUE, [error_message |-> <<"no status">>]) }

GeocodeBodies ==
    { [status |-> "OK",
       results |-> << [geometry |->
                         [location |-> [lat |-> 37422001, lng |-> -122084001]]] >>],
      [status |-> "OK",
       results |-> << [geometry |-> [location |-> [lat |-> 37422001]]] >>],
      [status |-> "ZERO_RESULTS", results |-> << >>] }

Item(t, n) == [types |-> t, short_name |-> n]

CompLists ==
    { \* the scenario of an address without street_number
      << Item(<<"route">>, <<"Amphitheatre Pkwy">>),
         Item(<<"locality", "political">>, <<"Mountain View">>),
         Item(<<"administrative_area_level_1">>, <<"CA">>),
         Item(<<"country">>, <<"US">>) >>,
      \* a repeated type, and postal_town without locality
      << Item(<<"street_number">>, <<"10">>),
         Item(<<"route">>, <<"Downing St">>),
         Item(<<"route">>, <<"Downing Street">>),
         Item(<<"postal_town">>, <<"London">>),
         Item(<<"postal_code">>, <<"SW1A">>) >>,
      \* no components at all
      << >>,
      \* an item without short_name
      << Item(<<"route">>, <<"Elm St">>), [types |-> <<"country">>] >> }

ReverseBodies ==
    { [status |-> "OK", results |-> << [address_components |-> cl] >>] :
        cl \in CompLists }
    \cup { [status |-> "OK", results |-> << [place_id |-> <<"x">>] >>],
           [status |-> "ZERO_RESULTS", results |-> << >>] }

Text(t) == [text |-> t]

DmBodies ==
    { [status |-> "OK",
       rows |-> << [elements |-> << [distance |-> Text(<<"5.2 km">>),
                                     duration |-> Text(<<"7 mins">>)] >>] >>],
      [status |-> "OK",
       rows |-> << [elements |-> << [distance |-> Text(<<"5.2 km">>)] >>] >>],
      [status |-> "OK", rows |-> << >>] }

Bodies(o) ==
    CASE o = "geocode" -> GeocodeBodies
      [] o = "reverse_geocode" -> ReverseBodies
      [] o = "distance_matrix" -> DmBodies

Responses(o) == Failures \cup {Resp("ok", TRUE, b) : b \in Bodies(o)}


-----------------------------------------------------------------------------
(* expiration(), lines 49-53.  A date is the pair <<year, month>>; the     *)
(* result is the date of the call and the number of days added to it.      *)

\* the months the calls fall in: 28, 29, 30 and 31 days
Dates == {<<2023, 2>>, <<2024, 2>>, <<2024, 4>>, <<2024, 12>>}

\* calendar.isleap
isleap(year) == (year % 4 = 0 /\ year % 100 # 0) \/ year % 400 = 0

\* calendar.monthrange(year, month)[1], line 51
monthrange(year, month) ==
    IF month = 2 THEN (IF isleap(year) THEN 29 ELSE 28)
    ELSE IF month \in {4, 6, 9, 11} THEN 30
    ELSE 31

\* Python's round() of num / den: to the nearest integer, a tie to the even
round(num, den) ==
    LET q == num \div den
        twice == 2 * (num % den)
    IN  IF twice < den THEN q
        ELSE IF twice > den THEN q + 1
        ELSE IF q % 2 = 0 THEN q ELSE q + 1

NoExpiration == [now |-> <<0, 0>>, days |-> 0]

\* the fuzz taken off the month instead of added to it
expirationEarlier ==
    LET month_days == monthrange(utcnow[1], utcnow[2])
        fuzz_days == round(_max_fuzz_days * rnd, RandomSteps)
    IN  [now |-> utcnow, days |-> month_days - fuzz_days]

\* lines 49-53
expiration ==
    LET month_days == monthrange(utcnow[1], utcnow[2])
        fuzz_days == round(_max_fuzz_days * rnd, RandomSteps)
    IN  [now |-> utcnow, days |-> month_days + fuzz_days]

-----------------------------------------------------------------------------
(* _make_request after the dispatch: the exception it raises, or "none"    *)
(* and the body it returns; a ValueError carries the body in its message.  *)

Raise(e) == [exc |-> e, body |-> EmptyDict]

\* the request was never sent
NoRequest == [exc |-> "unsent", body |-> EmptyDict]

\* OVER_QUERY_LIMIT not told apart from the other statuses
ClassifyNoQuota(body) ==
    IF "status" \notin DOMAIN body THEN Raise("KeyError")
    ELSE IF body.status = "OK" \/ body.status = "ZERO_RESULTS"
         THEN [exc |-> "none", body |-> body]
    ELSE [exc |-> "ValueError", body |-> body]

\* ZERO_RESULTS taken for an unexpected status
ClassifyOkOnly(body) ==
    IF "status" \notin DOMAIN body THEN Raise("KeyError")
    ELSE IF body.status = "OK"
         THEN [exc |-> "none", body |-> body]
    ELSE IF body.status = "OVER_QUERY_LIMIT" THEN Raise("UserWarning")
    ELSE [exc |-> "ValueError", body |-> body]

\* lines 117-123
Classify(body) ==
    IF "status" \notin DOMAIN body THEN Raise("KeyError")
    ELSE IF body.status = "OK" \/ body.status = "ZERO_RESULTS"
         THEN [exc |-> "none", body |-> body]
    ELSE IF body.status = "OVER_QUERY_LIMIT" THEN Raise("UserWarning")
    ELSE [exc |-> "ValueError", body |-> body]

\* lines 102-123
_make_request(r) ==
    CASE r.http = "timeout" -> Raise("Timeout")
      [] r.http = "connerr" -> Raise("ConnectionError")
      [] r.http = "error" ->
            IF r.json THEN Raise("HTTPError") ELSE Raise("JSONDecodeError")
      [] r.http = "ok" ->
            IF r.json THEN Classify(r.body) ELSE Raise("JSONDecodeError")

\* the except clause that catches exception e
Handler(e) ==
    CASE e = "none" -> "none"
      [] e = "HTTPError" -> "http"
      [] e = "Timeout" -> "timeout"
      [] e = "UserWarning" -> "quota"
      [] OTHER -> "unexpected"

\* the generic handler reading e.message as well
HandlerRaisesAlways(h) == h \in {"http", "timeout", "unexpected"}

\* the handlers that read e.message, which no exception has: evaluating
\* the argument of log.error raises AttributeError inside the handler
HandlerRaises(h) == h \in {"http", "timeout"}

\* a result: what the caller got (kind, val, err), where it came from (src),
\* the answer of the transport (resp), what _make_request made of it (req),
\* the exception that reached the except clauses (exc), the clause's log
\* line (log), whether the cache was written (wrote) and with which
\* expiration (exp)
NoRet ==
    [kind |-> "none", val |-> None, src |-> "none", log |-> "none",
     err |-> "none", wrote |-> FALSE, resp |-> NoResp,
     req |-> NoRequest, exc |-> "none", exp |-> NoExpiration]

\* what the caller gets once exception e (or "none") has met its handler
Outcome(e, v, w, r) ==
    IF HandlerRaises(Handler(e))
    THEN [kind |-> "error", val |-> None, src |-> "remote", log |-> "none",
          err |-> "AttributeError", wrote |-> w, resp |-> r,
          req |-> _make_request(r), exc |-> e,
          exp |-> IF w THEN expiration ELSE NoExpiration]
    ELSE [kind |-> "value", val |-> v, src |-> "remote", log |-> Handler(e),
          err |-> "none", wrote |-> w, resp |-> r,
          req |-> _make_request(r), exc |-> e,
          exp |-> IF w THEN expiration ELSE NoExpiration]

Hit(v, s) ==
    [kind |-> "value", val |-> v, src |-> s, log |-> "none",
     err |-> "none", wrote |-> FALSE, resp |-> NoResp,
     req |-> NoRequest, exc |-> "none", exp |-> NoExpiration]

-----------------------------------------------------------------------------
(* Normalisation of the bodies *)

\* geocode, lines 139-144
geocode_latlng(body) ==
    LET results == Get(body, "results", << >>)
        first == IF Len(results) > 0 THEN results[1] ELSE EmptyDict
        geometry == Get(first, "geometry", EmptyDict)
        location == Get(geometry, "location", EmptyDict)
    IN  IF "lat" \in DOMAIN location /\ "lng" \in DOMAIN location
        THEN <<location.lat, location.lng>>
        ELSE None

\* the street fields seeded with the EMPTY unknown
_reverse_geocode_defaults_empty ==
    [street_num |-> Unknown.EMPTY,
     street |-> Unknown.EMPTY,
     address |-> Unknown.REGULAR,
     address_eu |-> Unknown.REGULAR,
     postal |-> Unknown.REGULAR,
     neighborhood |-> Unknown.REGULAR,
     sublocality |-> Unknown.REGULAR,
     city |-> Unknown.REGULAR,
     county |-> Unknown.REGULAR,
     state |-> Unknown.REGULAR,
     country |-> Unknown.REGULAR]

\* lines 163-175
_reverse_geocode_defaults ==
    [street_num |-> Unknown.SMALL,
     street |-> Unknown.REGULAR,
     address |-> Unknown.REGULAR,
     address_eu |-> Unknown.REGULAR,
     postal |-> Unknown.REGULAR,
     neighborhood |-> Unknown.REGULAR,
     sublocality |-> Unknown.REGULAR,
     city |-> Unknown.REGULAR,
     county |-> Unknown.REGULAR,
     state |-> Unknown.REGULAR,
     country |-> Unknown.REGULAR]

\* a type already seen keeps the name of its first component
RECURSIVE AddTypesFirstWins(_, _, _)
AddTypesFirstWins(details, types, name) ==
    IF types = << >> THEN details
    ELSE AddTypesFirstWins(details @@ (Head(types) :> name), Tail(types),
                           name)

\* lines 197-198 for one item
RECURSIVE AddTypes(_, _, _)
AddTypes(details, types, name) ==
    IF types = << >> THEN details
    ELSE AddTypes((Head(types) :> name) @@ details, Tail(types), name)

\* lines 195-198; KeyError when an item lacks a key the loop reads
RECURSIVE Flatten(_, _)
Flatten(details, comps) ==
    IF comps = << >> THEN [exc |-> "none", details |-> details]
    ELSE LET item == Head(comps) IN
         IF "types" \notin DOMAIN item
         THEN [exc |-> "KeyError", details |-> details]
         ELSE IF item.types # << >> /\ "short_name" \notin DOMAIN item
              THEN [exc |-> "KeyError", details |-> details]
         ELSE Flatten(AddTypes(details, item.types,
                               Get(item, "short_name", << >>)),
                      Tail(comps))

\* the street fields composed in the other order
AddressSwapped(street_num, street) == street \o <<" ">> \o street_num

\* address, line 204
Address(street_num, street) == street_num \o <<" ">> \o street

\* address_eu, line 205
AddressEu(street_num, street) == street \o <<" ">> \o street_num

\* lines 202-215
Populate(details) ==
    LET num == Get(details, "street_number", Unknown.EMPTY)
        street == Get(details, "route", Unknown.EMPTY)
    IN  [street_num |-> num,
         street |-> street,
         address |-> Address(num, street),
         address_eu |-> AddressEu(num, street),
         postal |-> Get(details, "postal_code", Unknown.REGULAR),
         neighborhood |-> Get(details, "neighborhood", Unknown.REGULAR),
         sublocality |-> Get(details, "sublocality", Unknown.REGULAR),
         city |-> Get(details, "locality",
                      Get(details, "postal_town", Unknown.REGULAR)),
         county |-> Get(details, "administrative_area_level_2",
                        Unknown.REGULAR),
         state |-> Get(details, "administrative_area_level_1",
                       Unknown.REGULAR),
         country |-> Get(details, "country", Unknown.REGULAR)]

\* lines 193-215: the exception raised while populating, and dts after it
reverse_dts(body) ==
    LET results == Get(body, "results", << >>)
        first == IF Len(results) > 0 THEN results[1] ELSE EmptyDict
    IN  IF "address_components" \notin DOMAIN first
        THEN [exc |-> "TypeError", dts |-> _reverse_geocode_defaults]
        ELSE LET flat == Flatten(EmptyDict, first.address_components) IN
             IF flat.exc # "none"
             THEN [exc |-> flat.exc, dts |-> _reverse_geocode_defaults]
             ELSE [exc |-> "none", dts |-> Populate(flat.details)]

\* distance_matrix, lines 250-252
dm_defaults(mode) ==
    (<<mode, "_distance">> :> Unknown.REGULAR)
        @@ (<<mode, "_duration">> :> Unknown.REGULAR)

\* distance_matrix, lines 265-272
dm_dts(mode, body) ==
    LET rows == Get(body, "rows", << >>)
        row == IF Len(rows) > 0 THEN rows[1] ELSE EmptyDict
        elements == Get(row, "elements", << >>)
        el == IF Len(elements) > 0 THEN elements[1] ELSE EmptyDict
    IN  (<<mode, "_distance">> :>
            Get(Get(el, "distance", EmptyDict), "text", Unknown.REGULAR))
        @@ (<<mode, "_duration">> :>
            Get(Get(el, "duration", EmptyDict), "text", Unknown.REGULAR))

-----------------------------------------------------------------------------
(* The state after GMaps.__init__ *)

IdleOf(v) == [p \in Procs |-> v]

Init ==
    /\ now = 0
    /\ _window = << >>
    /\ _dm_hist = [k \in {<<m>> : m \in TRAVEL_MODES} |-> EmptyDict]
    /\ cache_geocode = EmptyDict
    /\ cache_reverse = EmptyDict
    /\ lock = [o \in OPS |-> "free"]
    /\ pc = IdleOf("idle")
    /\ op = IdleOf("none")
    /\ arg = IdleOf(NoArg)
    /\ key = IdleOf(None)
    /\ wake = IdleOf(0)
    /\ ret = IdleOf(NoRet)
    /\ sent = << >>
    /\ dm_done = {}
    /\ utcnow = <<2024, 2>>
    /\ rnd = 0

-----------------------------------------------------------------------------
(* synchronize_with: each decorated method has a semaphore of its own,     *)
(* taken before the body runs and given back on every way out of it.       *)

\* geocode left without its decorator
SynchronizedButGeocode(o) == o \in OPS \ {"geocode"}

\* lines 125, 177 and 235: the three methods are decorated
Synchronized(o) == o \in OPS

Acquire(p, o) ==
    IF Synchronized(o)
    THEN lock[o] = "free" /\ lock' = [lock EXCEPT ![o] = p]
    ELSE UNCHANGED lock

Release(p) ==
    IF Synchronized(op[p]) /\ lock[op[p]] = p
    THEN lock' = [lock EXCEPT ![op[p]] = "free"]
    ELSE UNCHANGED lock

InFlight(p) == pc[p] \in {"lookup", "sleep", "wait"}

\* a caller invokes method o with arguments a and is admitted to its body
Enter(p, o, a) ==
    /\ pc[p] = "idle"
    /\ Acquire(p, o)
    /\ pc' = [pc EXCEPT ![p] = "lookup"]
    /\ op' = [op EXCEPT ![p] = o]
    /\ arg' = [arg EXCEPT ![p] = a]
    /\ UNCHANGED <<utcnow, rnd, now, _window, _dm_hist, cache_geocode,
                   cache_reverse,
                   key, wake, ret, sent, dm_done>>

\* the method left with its semaphore still taken
FinishKeepLock(p, r) ==
    /\ pc' = [pc EXCEPT ![p] = "done"]
    /\ ret' = [ret EXCEPT ![p] = r]
    /\ UNCHANGED lock

\* the method returns or raises: the semaphore is released
Finish(p, r) ==
    /\ pc' = [pc EXCEPT ![p] = "done"]
    /\ ret' = [ret EXCEPT ![p] = r]
    /\ Release(p)

-----------------------------------------------------------------------------
(* _make_request up to the dispatch, lines 84-102 *)

\* a deque without maxlen
DequeAppendUnbounded(w, x) == Append(w, x)

\* deque(maxlen=_queries_per_second).append, lines 43 and 101
DequeAppend(w, x) ==
    IF Len(w) = _queries_per_second THEN Append(Tail(w), x) ELSE Append(w, x)

\* sleeping for the time already elapsed
SleepForElapsed(elapsed_time) == elapsed_time

\* line 89: the argument of time.sleep
SleepFor(elapsed_time) == Second - elapsed_time

\* lines 101-102: record the time, send the request
Dispatch(p) ==
    /\ _window' = DequeAppend(_window, now)
    /\ sent' = IF Len(sent) = _queries_per_second + 1
               THEN Append(Tail(sent), now)
               ELSE Append(sent, now)
    /\ pc' = [pc EXCEPT ![p] = "wait"]

\* lines 84-102, up to the first point where the caller waits
RateLimit(p) ==
    IF /\ Len(_window) = _queries_per_second
       /\ now - _window[1] < Second
    THEN /\ wake' = [wake EXCEPT ![p] = now + SleepFor(now - _window[1])]
         /\ pc' = [pc EXCEPT ![p] = "sleep"]
         /\ UNCHANGED <<_window, sent>>
    ELSE /\ Dispatch(p)
         /\ UNCHANGED wake

\* time.sleep returns, no earlier than asked; lines 91-102 follow
Wake(p) ==
    /\ pc[p] = "sleep"
    /\ now >= wake[p]
    /\ Dispatch(p)
    /\ UNCHANGED <<utcnow, rnd, now, _dm_hist, cache_geocode, cache_reverse,
                   lock,
                   op, arg, key, wake, ret, dm_done>>

-----------------------------------------------------------------------------
(* The bodies of the three methods up to the request *)

CacheGet(c, k) == IF k \in DOMAIN c THEN c[k] ELSE None

CachePut(c, k, v) == (k :> v) @@ [x \in DOMAIN c \ {k} |-> c[x]]

\* the mode never checked
ValidModeAny(mode) == TRUE

\* line 238
ValidMode(mode) == mode \in TRAVEL_MODES

Invalid ==
    [kind |-> "error", val |-> None, src |-> "invalid", log |-> "none",
     err |-> "ValueError", wrote |-> FALSE, resp |-> NoResp,
     req |-> NoRequest, exc |-> "none", exp |-> NoExpiration]

\* geocode, lines 130-137
GeocodeLookup(p) ==
    LET address == lower(arg[p].address) IN
    /\ key' = [key EXCEPT ![p] = address]
    /\ IF address \in DOMAIN cache_geocode
       THEN /\ Finish(p, Hit(CacheGet(cache_geocode, address), "cache"))
            /\ UNCHANGED <<_window, sent, wake>>
       ELSE /\ RateLimit(p)
            /\ UNCHANGED <<ret, lock>>

\* reverse_geocode, lines 181-191
ReverseLookup(p) ==
    LET latlng == FmtLatLng(arg[p].latlng) IN
    /\ key' = [key EXCEPT ![p] = latlng]
    /\ IF latlng \in DOMAIN cache_reverse
       THEN /\ Finish(p, Hit(CacheGet(cache_reverse, latlng), "cache"))
            /\ UNCHANGED <<_window, sent, wake>>
       ELSE /\ RateLimit(p)
            /\ UNCHANGED <<ret, lock>>

\* distance_matrix, lines 238-264
DmLookup(p) ==
    LET k == DmKey(arg[p].origin, arg[p].dest) IN
    IF ~ValidMode(arg[p].mode)
    THEN /\ Finish(p, Invalid)
         /\ UNCHANGED <<key, _window, sent, wake>>
    ELSE /\ key' = [key EXCEPT ![p] = k]
         /\ IF k \in DOMAIN _dm_hist
            THEN /\ Finish(p, Hit(_dm_hist[k], "memo"))
                 /\ UNCHANGED <<_window, sent, wake>>
            ELSE /\ RateLimit(p)
                 /\ UNCHANGED <<ret, lock>>

Lookup(p) ==
    /\ pc[p] = "lookup"
    /\ CASE op[p] = "geocode" -> GeocodeLookup(p)
         [] op[p] = "reverse_geocode" -> ReverseLookup(p)
         [] op[p] = "distance_matrix" -> DmLookup(p)
    /\ UNCHANGED <<utcnow, rnd, now, _dm_hist, cache_geocode, cache_reverse,
                   op, arg,
                   dm_done>>

-----------------------------------------------------------------------------
(* The bodies from the answer of the transport to the return.  cache_ok    *)
(* is whether the write to the cache (and expiration()) goes through.      *)

\* geocode, lines 137-161
GeocodeRespond(p, r, cache_ok) ==
    LET res == _make_request(r)
        latlng == IF res.exc = "none" THEN geocode_latlng(res.body) ELSE None
        store == res.exc = "none" /\ latlng # None
        exc == IF store /\ ~cache_ok THEN "CacheError" ELSE res.exc
    IN  /\ cache_geocode' =
              IF store /\ cache_ok
              THEN CachePut(cache_geocode, key[p], latlng)
              ELSE cache_geocode
        /\ Finish(p, Outcome(exc, latlng, store /\ cache_ok, r))
        /\ UNCHANGED <<cache_reverse, dm_done>>

\* reverse_geocode, lines 187-233
ReverseRespond(p, r, cache_ok) ==
    LET res == _make_request(r)
        got == IF res.exc = "none"
               THEN reverse_dts(res.body)
               ELSE [exc |-> res.exc, dts |-> _reverse_geocode_defaults]
        store == got.exc = "none"
        exc == IF store /\ ~cache_ok THEN "CacheError" ELSE got.exc
    IN  /\ cache_reverse' =
              IF store /\ cache_ok
              THEN CachePut(cache_reverse, key[p], got.dts)
              ELSE cache_reverse
        /\ Finish(p, Outcome(exc, got.dts, store /\ cache_ok, r))
        /\ UNCHANGED <<cache_geocode, dm_done>>

\* distance_matrix, lines 250-287; nothing is stored in _dm_hist
DmRespond(p, r) ==
    LET res == _make_request(r)
        dts == IF res.exc = "none"
               THEN dm_dts(arg[p].mode, res.body)
               ELSE dm_defaults(arg[p].mode)
        out == Outcome(res.exc, dts, FALSE, r)
    IN  /\ Finish(p, out)
        /\ dm_done' = IF out.kind = "value" THEN dm_done \cup {key[p]}
                      ELSE dm_done
        /\ UNCHANGED <<cache_geocode, cache_reverse>>

Respond(p, r, cache_ok) ==
    /\ pc[p] = "wait"
    /\ r \in Responses(op[p])
    /\ CASE op[p] = "geocode" -> GeocodeRespond(p, r, cache_ok)
         [] op[p] = "reverse_geocode" -> ReverseRespond(p, r, cache_ok)
         [] op[p] = "distance_matrix" -> cache_ok /\ DmRespond(p, r)
    /\ UNCHANGED <<utcnow, rnd, now, _window, _dm_hist, op, arg, key, wake,
                 sent>>

\* the caller has its result and may call again
Return(p) ==
    /\ pc[p] = "done"
    /\ pc' = [pc EXCEPT ![p] = "idle"]
    /\ op' = [op EXCEPT ![p] = "none"]
    /\ arg' = [arg EXCEPT ![p] = NoArg]
    /\ key' = [key EXCEPT ![p] = None]
    /\ wake' = [wake EXCEPT ![p] = 0]
    /\ ret' = [ret EXCEPT ![p] = NoRet]
    /\ UNCHANGED <<utcnow, rnd, now, _window, _dm_hist, cache_geocode,
                   cache_reverse,
                   lock, sent, dm_done>>

\* the clock advances
Tick ==
    /\ now < MaxTime
    /\ now' = now + 1
    /\ UNCHANGED <<utcnow, rnd, _window, _dm_hist, cache_geocode,
                   cache_reverse, lock,
                   pc, op, arg, key, wake, ret, sent, dm_done>>

\* a caller invokes method o with arguments a and waits for its semaphore;
\* calls are made until the clock stops or N + 1 requests have been sent
Call(p, o, a) ==
    /\ pc[p] = "idle"
    /\ now < MaxTime
    /\ Len(sent) <= _queries_per_second
    /\ pc' = [pc EXCEPT ![p] = "blocked"]
    /\ op' = [op EXCEPT ![p] = o]
    /\ arg' = [arg EXCEPT ![p] = a]
    /\ UNCHANGED <<utcnow, rnd, now, _window, _dm_hist, cache_geocode,
                   cache_reverse, lock, key, wake, ret, sent, dm_done>>

\* the waiting caller gets the semaphore and is admitted to the body
Admit(p) ==
    /\ pc[p] = "blocked"
    /\ Acquire(p, op[p])
    /\ pc' = [pc EXCEPT ![p] = "lookup"]
    /\ UNCHANGED <<utcnow, rnd, now, _window, _dm_hist, cache_geocode,
                   cache_reverse, op, arg, key, wake, ret, sent, dm_done>>

\* the clock advances, and goes on for as long as a caller sleeps
Elapse ==
    /\ now < MaxTime \/ \E p \in Procs : pc[p] = "sleep" /\ now < wake[p]
    /\ now' = now + 1
    /\ UNCHANGED <<utcnow, rnd, _window, _dm_hist, cache_geocode,
                   cache_reverse, lock, pc, op, arg, key, wake, ret, sent,
                   dm_done>>

\* the month changes, and random.random() gives its next value
Roll(d, u) ==
    /\ <<d, u>> # <<utcnow, rnd>>
    /\ utcnow' = d
    /\ rnd' = u
    /\ UNCHANGED <<now, _window, _dm_hist, cache_geocode, cache_reverse, lock,
                   pc, op, arg, key, wake, ret, sent, dm_done>>

AllResponses == UNION {Responses(o) : o \in OPS}

\* the callers run concurrently, on a short menu of calls and answers
MenuArgs(o) ==
    CASE o = "geocode" -> {[address |-> a] : a \in {<<"E", "l">>, <<"e", "l">>}}
      [] o = "reverse_geocode" -> {[latlng |-> <<37422001, -122084001>>]}
      [] o = "distance_matrix" ->
            {[mode |-> m, origin |-> <<37422001, -122084001>>, dest |-> Dest] :
                m \in {"driving", "flying"}}

MenuBody(o) ==
    CASE o = "geocode" ->
            [status |-> "OK",
             results |-> << [geometry |->
                               [location |->
                                  [lat |-> 37422001, lng |-> -122084001]]] >>]
      [] o = "reverse_geocode" ->
            [status |-> "OK",
             results |-> << [address_components |-> << >>] >>]
      [] o = "distance_matrix" ->
            [status |-> "OK",
             rows |-> << [elements |->
                            << [distance |-> Text(<<"5.2 km">>),
                                duration |-> Text(<<"7 mins">>)] >>] >>]

MenuResponses ==
    { Resp("timeout", FALSE, EmptyDict),
      Resp("ok", TRUE, [status |-> "OVER_QUERY_LIMIT"]) }
    \cup {Resp("ok", TRUE, MenuBody(o)) : o \in OPS}

Next ==
    \/ \E p \in Procs : \E o \in OPS : \E a \in MenuArgs(o) : Enter(p, o, a)
    \/ \E p \in Procs : Lookup(p)
    \/ \E p \in Procs : Wake(p)
    \/ \E p \in Procs : \E r \in MenuResponses : Respond(p, r, TRUE)
    \/ \E p \in Procs : Return(p)
    \/ Tick

Spec == Init /\ [][Next]_vars

\* one caller makes its calls one after another, on the full menu
Caller == "p1"

NextSeq ==
    \/ \E o \in OPS : \E a \in Args(o) : Enter(Caller, o, a)
    \/ Lookup(Caller)
    \/ Wake(Caller)
    \/ \E r \in AllResponses : \E c \in BOOLEAN : Respond(Caller, r, c)
    \/ Return(Caller)
    \/ Tick

SpecSeq == Init /\ [][NextSeq]_vars

\* one caller, on the short menu, over the months and the random draws;
\* the calls are those of one instant of the clock
NextExp ==
    \/ \E o \in OPS : \E a \in MenuArgs(o) : Enter(Caller, o, a)
    \/ Lookup(Caller)
    \/ \E r \in MenuResponses : Respond(Caller, r, TRUE)
    \/ Return(Caller)
    \/ \E d \in Dates : \E u \in 0..(RandomSteps - 1) : Roll(d, u)

SpecExp == Init /\ [][NextExp]_vars

\* the calls of the fair specification: both callers call distance_matrix,
\* with a valid or an invalid mode, and so wait for one another; one of
\* them calls geocode and reverse_geocode as well
FairOps(p) == IF p = Caller THEN OPS ELSE {"distance_matrix"}

FairArgs(o) ==
    CASE o = "geocode" -> {[address |-> <<"e", "l">>]}
      [] o = "reverse_geocode" -> {[latlng |-> <<37422001, -122084001>>]}
      [] o = "distance_matrix" -> MenuArgs(o)

FairResponses ==
    {Resp("timeout", FALSE, EmptyDict)}
    \cup {Resp("ok", TRUE, MenuBody(o)) : o \in OPS}

NextFair ==
    \/ \E p \in Procs : \E o \in FairOps(p) : \E a \in FairArgs(o) :
          Call(p, o, a)
    \/ \E p \in Procs : Admit(p)
    \/ \E p \in Procs : Lookup(p)
    \/ \E p \in Procs : Wake(p)
    \/ \E p \in Procs : \E r \in FairResponses : Respond(p, r, TRUE)
    \/ \E p \in Procs : Return(p)
    \/ Elapse

\* Every caller that can take a step is scheduled (weak fairness of Lookup
\* and Wake); the transport answers or times out, timeout = 3 at line 102
\* and three retries at lines 62-66 (weak fairness of Respond); time
\* passes (weak fairness of Elapse); the semaphore is handed to a caller
\* that waits for it (strong fairness of Admit).
Fairness ==
    /\ \A p \in Procs :
          /\ SF_vars(Admit(p))
          /\ WF_vars(Lookup(p))
          /\ WF_vars(Wake(p))
          /\ WF_vars(\E r \in FairResponses : Respond(p, r, TRUE))
    /\ WF_vars(Elapse)

SpecFair == Init /\ [][NextFair]_vars /\ Fairness

-----------------------------------------------------------------------------
(* Properties *)

N == _queries_per_second

\* C1: when the calls come one after another, no trailing one-second
\* interval (t - 1s, t] holds more than N dispatches: the dispatch that
\* follows N others is at least one second after the oldest of them.
RateBound ==
    \A i \in 1..(Len(sent) - N) : sent[i + N] - sent[i] >= Second

\* C1 witness: the window was full, the caller slept and its request went
\* out exactly one second after the oldest timestamp.
RateBoundWitness ==
    /\ Len(sent) = N + 1
    /\ pc[Caller] = "wait"
    /\ wake[Caller] > 0
    /\ sent[N + 1] = sent[1] + Second
    /\ sent[N] < sent[1] + Second

\* C2 (as claimed): with concurrent callers no two requests are released
\* by sleeping against the same oldest timestamp, and no N + 1 dispatches
\* fall within one second.
AtomicRateLimit ==
    /\ \A p, q \in Procs :
          (p # q /\ pc[p] = "wait" /\ pc[q] = "wait" /\ wake[p] > 0)
             => wake[p] # wake[q]
    /\ \A i \in 1..Len(sent) : \A j \in 1..Len(sent) :
          j - i >= N => sent[j] >= sent[i] + Second

RemoteFailure(r) ==
    \/ r.http \in {"timeout", "connerr", "error"}
    \/ r.http = "ok" /\ ~r.json
    \/ r.http = "ok" /\ Get(r.body, "status", "") \notin {"OK", "ZERO_RESULTS"}

\* C3 (as claimed): whenever the remote request of a call fails, the call
\* returns a value and no error escapes it.
NoErrorEscapes ==
    \A p \in Procs :
       (pc[p] = "done" /\ ret[p].src = "remote" /\ RemoteFailure(ret[p].resp))
          => ret[p].kind = "value"

OverQueryLimit(r) ==
    r.http = "ok" /\ r.json /\ Get(r.body, "status", "") = "OVER_QUERY_LIMIT"

\* C4: a geocode call that missed the cache and is answered
\* OVER_QUERY_LIMIT returns None, raises nothing, logs through the
\* quota-exceeded handler and leaves the cache as it was.
QuotaExceededGeocode ==
    [][\A p \in Procs :
          (/\ pc[p] = "wait"
           /\ pc'[p] = "done"
           /\ op[p] = "geocode"
           /\ OverQueryLimit(ret'[p].resp))
             => /\ ret'[p].kind = "value"
                /\ ret'[p].val = None
                /\ ret'[p].log = "quota"
                /\ cache_geocode' = cache_geocode]_vars

\* C4 witness: a geocode call has returned from an OVER_QUERY_LIMIT answer.
QuotaExceededWitness ==
    \E p \in Procs :
       /\ pc[p] = "done"
       /\ op[p] = "geocode"
       /\ OverQueryLimit(ret[p].resp)
       /\ ret[p].log = "quota"

BadMode(p) ==
    /\ op[p] = "distance_matrix"
    /\ arg[p].mode \notin {"walking", "biking", "driving", "transit"}

\* C5: distance_matrix with a mode outside the four travel modes raises
\* ValueError to its caller, never reaches the rate limiter or the
\* dispatch, and changes neither the window, the memo nor the caches.
InvalidModeRejected ==
    [][\A p \in Procs :
          (BadMode(p) /\ pc[p] = "lookup" /\ pc'[p] # "lookup")
             => /\ pc'[p] = "done"
                /\ ret'[p].kind = "error"
                /\ ret'[p].err = "ValueError"
                /\ UNCHANGED <<_window, sent, _dm_hist, cache_geocode,
                               cache_reverse>>]_vars

\* C5 witness: a call with mode "flying" has ended with the error.
InvalidModeWitness ==
    \E p \in Procs :
       /\ pc[p] = "done"
       /\ op[p] = "distance_matrix"
       /\ arg[p].mode = "flying"
       /\ ret[p].err = "ValueError"

\* C6: at most one execution of each operation is under way at a time,
\* and the caller under way holds the operation's lock from its admission
\* to its return, through cache and network I/O.
OneInFlightPerOperation ==
    /\ \A o \in OPS : Cardinality({p \in Procs : InFlight(p) /\ op[p] = o}) <= 1
    /\ \A p \in Procs : InFlight(p) => lock[op[p]] = p

\* C6 witness: two different operations are in flight at once, both
\* waiting for the network, while a third lock is free.
TwoOperationsInFlight ==
    /\ pc["p1"] = "wait"
    /\ pc["p2"] = "wait"
    /\ op["p1"] = "geocode"
    /\ op["p2"] = "distance_matrix"
    /\ lock["reverse_geocode"] = "free"

\* C7 (as claimed): once a valid-mode distance_matrix call has completed
\* for an origin and destination, a later call for the same 5-decimal
\* pair is served from the memo and dispatches nothing.
MemoServesLaterCalls ==
    [][\A p \in Procs :
          (/\ pc[p] = "lookup"
           /\ pc'[p] # "lookup"
           /\ op[p] = "distance_matrix"
           /\ arg[p].mode \in {"walking", "biking", "driving", "transit"}
           /\ DmKey(arg[p].origin, arg[p].dest) \in dm_done)
             => /\ pc'[p] = "done"
                /\ ret'[p].src = "memo"
                /\ sent' = sent]_vars

SameLetter(x, y) ==
    x = y \/ <<x, y>> \in CasePairs \/ <<y, x>> \in CasePairs

SameUpToCase(a, b) ==
    Len(a) = Len(b) /\ \A i \in 1..Len(a) : SameLetter(a[i], b[i])

AllLower(a) == \A i \in 1..Len(a) : \A pr \in CasePairs : a[i] # pr[1]

\* C8: when the cache holds a coordinate under the lowercase form of an
\* address, a geocode call with that address in any letter case returns
\* that coordinate and changes neither the window nor the cache.
WarmGeocode ==
    [][\A p \in Procs : \A k \in DOMAIN cache_geocode :
          (/\ pc[p] = "lookup"
           /\ pc'[p] # "lookup"
           /\ op[p] = "geocode"
           /\ AllLower(k)
           /\ SameUpToCase(k, arg[p].address))
             => /\ pc'[p] = "done"
                /\ ret'[p].kind = "value"
                /\ ret'[p].val = cache_geocode[k]
                /\ UNCHANGED <<_window, sent, cache_geocode>>]_vars

\* C8 witness: a call whose address is not in lower case was served from
\* the cache.
WarmGeocodeWitness ==
    \E p \in Procs :
       /\ pc[p] = "done"
       /\ op[p] = "geocode"
       /\ ret[p].src = "cache"
       /\ arg[p].address # key[p]
       /\ ret[p].val = cache_geocode[key[p]]

\* the 5-decimal key "lat,lng" of a coordinate
Key5(c) == <<ToString((c[1] + 5) \div 10), ",", ToString((c[2] + 5) \div 10)>>

\* C9: a reverse_geocode call that writes to the cache writes, under the
\* 5-decimal key of its coordinate, the value it returns; entries stay as
\* written; and a call that finds its key in the cache returns the entry
\* and dispatches nothing.
ReverseCacheRoundTrip ==
    [][/\ \A k \in DOMAIN cache_reverse :
             k \in DOMAIN cache_reverse' /\ cache_reverse'[k] = cache_reverse[k]
       /\ \A p \in Procs :
             (/\ op[p] = "reverse_geocode"
              /\ pc[p] = "wait"
              /\ pc'[p] = "done"
              /\ cache_reverse' # cache_reverse)
                => /\ DOMAIN cache_reverse' =
                         DOMAIN cache_reverse \cup {Key5(arg[p].latlng)}
                   /\ ret'[p].kind = "value"
                   /\ cache_reverse'[Key5(arg[p].latlng)] = ret'[p].val
       /\ \A p \in Procs :
             (/\ op[p] = "reverse_geocode"
              /\ pc[p] = "lookup"
              /\ pc'[p] # "lookup"
              /\ Key5(arg[p].latlng) \in DOMAIN cache_reverse)
                => /\ pc'[p] = "done"
                   /\ ret'[p].kind = "value"
                   /\ ret'[p].val = cache_reverse[Key5(arg[p].latlng)]
                   /\ UNCHANGED <<_window, sent, cache_reverse>>]_vars

\* C9 witness: a call was served a populated entry from the cache, for a
\* coordinate whose sixth decimal is not zero.
ReverseCacheWitness ==
    \E p \in Procs :
       /\ pc[p] = "done"
       /\ op[p] = "reverse_geocode"
       /\ ret[p].src = "cache"
       /\ ret[p].val = cache_reverse[Key5(arg[p].latlng)]
       /\ ret[p].val.street = <<"Amphitheatre Pkwy">>

Composed(d) ==
    /\ d.address = d.street_num \o <<" ">> \o d.street
    /\ d.address_eu = d.street \o <<" ">> \o d.street_num

ReverseMiss(p) ==
    /\ pc[p] = "done"
    /\ op[p] = "reverse_geocode"
    /\ ret[p].src = "remote"
    /\ ret[p].kind = "value"

ItemReadable(item) ==
    /\ "types" \in DOMAIN item
    /\ item.types = << >> \/ "short_name" \in DOMAIN item

\* the answer lets lines 202-215 run
Populates(r) ==
    /\ r.http = "ok"
    /\ r.json
    /\ Get(r.body, "status", "") \in {"OK", "ZERO_RESULTS"}
    /\ Len(Get(r.body, "results", << >>)) > 0
    /\ "address_components" \in DOMAIN r.body.results[1]
    /\ \A i \in 1..Len(r.body.results[1].address_components) :
          ItemReadable(r.body.results[1].address_components[i])

HttpSuccess(r) == r.http = "ok" /\ r.json /\ "status" \in DOMAIN r.body

Remote(p) == pc[p] = "done" /\ ret[p].src = "remote"

\* C11: for an answer with a successful HTTP status, _make_request returns
\* the body exactly when its status is OK or ZERO_RESULTS, raises the
\* quota warning exactly when it is OVER_QUERY_LIMIT, and raises the
\* unexpected-status error, which carries the body, for every other
\* status; one of the three happens and no two of them.
StatusClassified ==
    \A p \in Procs :
       (Remote(p) /\ HttpSuccess(ret[p].resp)) =>
          LET status == ret[p].resp.body.status
              req == ret[p].req
          IN  /\ req.exc \in {"none", "UserWarning", "ValueError"}
              /\ req.exc = "none" <=> status \in {"OK", "ZERO_RESULTS"}
              /\ req.exc = "UserWarning" <=> status = "OVER_QUERY_LIMIT"
              /\ req.exc = "ValueError" <=>
                    status \notin {"OK", "ZERO_RESULTS", "OVER_QUERY_LIMIT"}
              /\ req.exc \in {"none", "ValueError"}
                    => req.body = ret[p].resp.body

\* C11 witness: a ZERO_RESULTS body was returned to the method.
StatusClassifiedWitness ==
    \E p \in Procs :
       /\ Remote(p)
       /\ HttpSuccess(ret[p].resp)
       /\ ret[p].resp.body.status = "ZERO_RESULTS"
       /\ ret[p].req = [exc |-> "none", body |-> ret[p].resp.body]

\* C12: whenever the HTTP status of the answer is not a successful one,
\* _make_request raises the HTTP error, whatever the body holds, a body
\* that is not JSON included; the status field of the body is never
\* classified.
HttpFailureRaisesHttpError ==
    \A p \in Procs :
       (Remote(p) /\ ret[p].resp.http = "error") =>
          ret[p].req = [exc |-> "HTTPError", body |-> EmptyDict]

Components(r) == r.body.results[1].address_components

HasType(item, t) == \E j \in 1..Len(item.types) : item.types[j] = t

\* short_name of the last component that has type t, d when there is none
LastOf(comps, t, d) ==
    LET having == {i \in 1..Len(comps) : HasType(comps[i], t)} IN
    IF having = {} THEN d
    ELSE comps[CHOOSE i \in having : \A j \in having : j <= i].short_name

\* C13: after an answer with readable address components every field of
\* the returned AddressDetails is the short_name of the last component of
\* its type: street_number, route, postal_code, neighborhood, sublocality,
\* locality or else postal_town, administrative_area_level_2,
\* administrative_area_level_1, country.  A missing street_number or
\* route gives the EMPTY unknown, any other missing type the REGULAR
\* unknown, and address and address_eu are composed all the same.
ComponentsMapped ==
    \A p \in Procs :
       (ReverseMiss(p) /\ Populates(ret[p].resp)) =>
          LET c == Components(ret[p].resp)
              d == ret[p].val
              num == LastOf(c, "street_number", << >>)
              street == LastOf(c, "route", << >>)
          IN  /\ d.street_num = num
              /\ d.street = street
              /\ d.address = num \o <<" ">> \o street
              /\ d.address_eu = street \o <<" ">> \o num
              /\ d.postal = LastOf(c, "postal_code", <<"unknown">>)
              /\ d.neighborhood = LastOf(c, "neighborhood", <<"unknown">>)
              /\ d.sublocality = LastOf(c, "sublocality", <<"unknown">>)
              /\ d.city = LastOf(c, "locality",
                                 LastOf(c, "postal_town", <<"unknown">>))
              /\ d.county = LastOf(c, "administrative_area_level_2",
                                   <<"unknown">>)
              /\ d.state = LastOf(c, "administrative_area_level_1",
                                  <<"unknown">>)
              /\ d.country = LastOf(c, "country", <<"unknown">>)

\* C13 witness: of two route components the later one names the street,
\* and postal_town stands in for the missing locality.
ComponentsMappedWitness ==
    \E p \in Procs :
       /\ ReverseMiss(p)
       /\ Populates(ret[p].resp)
       /\ Len(Components(ret[p].resp)) = 5
       /\ Components(ret[p].resp)[2].short_name = <<"Downing St">>
       /\ ret[p].val.street = <<"Downing Street">>
       /\ ret[p].val.address = <<"10", " ", "Downing Street">>
       /\ ret[p].val.city = <<"London">>
       /\ ret[p].val.country = <<"unknown">>

\* a cache miss of reverse_geocode whose request failed, or whose answer
\* did not let lines 202-215 run, and that still returned a value
ReverseDegraded(p) == ReverseMiss(p) /\ ~Populates(ret[p].resp)

\* C14 (as claimed): when reverse_geocode misses the cache and fails
\* before any field is populated, the returned AddressDetails has
\* street_num and street equal to the EMPTY unknown and every other
\* field that is not derived equal to the REGULAR unknown.
DefaultsHaveEmptyStreet ==
    \A p \in Procs :
       ReverseDegraded(p) =>
          /\ ret[p].val.street_num = << >>
          /\ ret[p].val.street = << >>
          /\ \A f \in {"postal", "neighborhood", "sublocality", "city",
                       "county", "state", "country"} :
                ret[p].val[f] = <<"unknown">>

\* C14 (amended): when reverse_geocode misses the cache and fails before
\* any field is populated, the AddressDetails it returns has street_num
\* equal to the SMALL unknown and street, address, address_eu and every
\* other field equal to the REGULAR unknown.
DefaultsReturnedOnFailure ==
    \A p \in Procs :
       ReverseDegraded(p) =>
          /\ ret[p].val.street_num = <<"?">>
          /\ \A f \in DOMAIN ret[p].val \ {"street_num"} :
                ret[p].val[f] = <<"unknown">>
          /\ DOMAIN ret[p].val =
                {"street_num", "street", "address", "address_eu", "postal",
                 "neighborhood", "sublocality", "city", "county", "state",
                 "country"}
          /\ ~ret[p].wrote

\* C14 witness: the quota was exceeded and the defaults came back.
DefaultsReturnedWitness ==
    \E p \in Procs :
       /\ ReverseDegraded(p)
       /\ ret[p].req.exc = "UserWarning"
       /\ ret[p].log = "quota"
       /\ ret[p].val.street_num = <<"?">>
       /\ ret[p].val.street = <<"unknown">>

\* every address component the answer carries can be read
Readable(r) ==
    LET results == Get(r.body, "results", << >>) IN
    (Len(results) > 0 /\ "address_components" \in DOMAIN results[1])
       => \A i \in 1..Len(results[1].address_components) :
             ItemReadable(results[1].address_components[i])

\* C15: whenever _make_request returns a body to reverse_geocode, a body
\* with no results or with a first result without address_components
\* included, the call is a success: nothing is logged as a failure, the
\* details are populated from the components there are, and the entry is
\* written to the cache under the five-decimal key with an expiration.
BodyReturnedIsSuccess ==
    \A p \in Procs :
       (/\ pc[p] = "done"
        /\ op[p] = "reverse_geocode"
        /\ ret[p].src = "remote"
        /\ ret[p].req.exc = "none"
        /\ Readable(ret[p].resp)
        /\ ret[p].exc # "CacheError")
          => /\ ret[p].kind = "value"
             /\ ret[p].log = "none"
             /\ LET c == IF Populates(ret[p].resp)
                         THEN Components(ret[p].resp) ELSE << >>
                IN  /\ ret[p].val.street_num = LastOf(c, "street_number", << >>)
                    /\ ret[p].val.street = LastOf(c, "route", << >>)
             /\ ret[p].wrote
             /\ ret[p].exp # NoExpiration
             /\ Key5(arg[p].latlng) \in DOMAIN cache_reverse
             /\ cache_reverse[Key5(arg[p].latlng)] = ret[p].val

Invoked(p) == pc[p] \in {"blocked", "lookup", "sleep", "wait"}

\* a step of the rate limiter: a call is suspended only at its check, for
\* more than no time and at most one second, and a suspended call goes on
\* to record its timestamp and send, whatever the window holds by then,
\* with nothing reported to its caller
SuspendedOnce ==
    \A p \in Procs :
       /\ (pc[p] # "sleep" /\ pc'[p] = "sleep")
             => /\ pc[p] = "lookup"
                /\ wake'[p] > now
                /\ wake'[p] - now <= Second
       /\ (pc[p] = "sleep" /\ pc'[p] # "sleep")
             => /\ pc'[p] = "wait"
                /\ Len(_window') > 0
                /\ _window'[Len(_window')] = now
                /\ ret'[p] = NoRet
       /\ (pc[p] = "wait" /\ pc'[p] # "wait") => pc'[p] = "done"

\* a semaphore is held only by a caller inside the body of its method
LockHeldInBody ==
    \A o \in OPS : \A p \in Procs :
       lock[o] = p => (InFlight(p) /\ op[p] = o)

\* C16: under fairness every invoked call eventually returns or fails.
\* The rate limiter suspends a call at most once, for at most one second,
\* then sends without checking the window again and reports nothing to
\* the caller; the semaphore of the method is free again after every way
\* out (return, degraded return, invalid mode), so a caller that waits
\* for the method is admitted and ends too.
EveryCallEnds ==
    /\ \A p \in Procs : Invoked(p) ~> pc[p] = "done"
    /\ [][SuspendedOnce]_vars
    /\ []LockHeldInBody

\* C16 witness: a caller waits for the semaphore of distance_matrix while
\* the caller that holds it sleeps in the rate limiter.
EveryCallEndsWitness ==
    \E p \in Procs : \E q \in Procs :
       /\ pc[p] = "blocked"
       /\ op[p] = "distance_matrix"
       /\ lock["distance_matrix"] = q
       /\ pc[q] = "sleep"
       /\ wake[q] > now

WindowOrdered ==
    /\ Len(_window) <= N
    /\ \A i \in 1..(Len(_window) - 1) : _window[i] <= _window[i + 1]

\* the call of p reaches lines 101-102 in this step
Dispatches(p) == pc[p] \in {"lookup", "sleep"} /\ pc'[p] = "wait"

WindowStep ==
    /\ \A p \in Procs :
          Dispatches(p) =>
             _window' = (IF Len(_window) = N
                         THEN SubSeq(_window, 2, N)
                         ELSE _window) \o <<now>>
    /\ (~\E p \in Procs : Dispatches(p)) => _window' = _window

\* C17: the rate window never holds more than N timestamps and they are in
\* non-decreasing order.  A call that reaches the dispatch appends exactly
\* one timestamp, the time of sending, dropping the oldest when the window
\* is full; no other step touches the window: an answer, a timeout or a
\* failure leaves the timestamp where it is, and a cache hit, a memo hit
\* or an invalid mode appends nothing.
WindowDiscipline == []WindowOrdered /\ [][WindowStep]_vars

\* C17 witness: a request timed out, its timestamp is still in the window,
\* and the window is full and has dropped its oldest entry.
WindowDisciplineWitness ==
    \E p \in Procs :
       /\ pc[p] = "done"
       /\ ret[p].resp.http = "timeout"
       /\ Len(sent) = N + 1
       /\ _window = SubSeq(sent, 2, N + 1)
       /\ \A q \in Procs \ {p} : pc[q] = "idle"
       /\ \A i \in 1..N : _window[i] = now

\* the answer gives the first result both a lat and a lng
HasCoordinate(r) ==
    /\ r.http = "ok"
    /\ r.json
    /\ Get(r.body, "status", "") \in {"OK", "ZERO_RESULTS"}
    /\ Len(Get(r.body, "results", << >>)) > 0
    /\ LET location == Get(Get(r.body.results[1], "geometry", EmptyDict),
                           "location", EmptyDict)
       IN  "lat" \in DOMAIN location /\ "lng" \in DOMAIN location

\* C18: geocode writes to the cache only when the answer held both lat and
\* lng of the first result.  After a failed request or an answer without
\* a coordinate the call returns the absent coordinate and the cache has
\* no entry for the address, so that a later call for it dispatches again.
AbsentNeverCached ==
    \A p \in Procs :
       (pc[p] = "done" /\ op[p] = "geocode" /\ ret[p].src = "remote") =>
          /\ ret[p].wrote => HasCoordinate(ret[p].resp)
          /\ ~HasCoordinate(ret[p].resp) =>
                /\ ret[p].kind = "value"
                /\ ret[p].val = None
                /\ ~ret[p].wrote
                /\ key[p] \notin DOMAIN cache_geocode

\* the write to the cache, or expiration(), raised after the result of
\* the call had been computed
LateFailure(p) == pc[p] = "done" /\ ret[p].exc = "CacheError"

\* C19: when the write to the cache or expiration() raises after the
\* result has been computed, the call does not raise: geocode returns the
\* coordinate it took from the answer and reverse_geocode the populated
\* AddressDetails, not the defaults.
LateFailureKeepsResult ==
    \A p \in Procs :
       LateFailure(p) =>
          /\ ret[p].kind = "value"
          /\ ret[p].err = "none"
          /\ ~ret[p].wrote
          /\ op[p] \in {"geocode", "reverse_geocode"}
          /\ op[p] = "geocode" =>
                /\ HasCoordinate(ret[p].resp)
                /\ ret[p].val =
                      <<ret[p].resp.body.results[1].geometry.location.lat,
                        ret[p].resp.body.results[1].geometry.location.lng>>
          /\ op[p] = "reverse_geocode" =>
                /\ Populates(ret[p].resp)
                /\ ret[p].val.street_num =
                      LastOf(Components(ret[p].resp), "street_number", << >>)
                /\ ret[p].val.street =
                      LastOf(Components(ret[p].resp), "route", << >>)
                /\ ret[p].val.country =
                      LastOf(Components(ret[p].resp), "country", <<"unknown">>)
                /\ Composed(ret[p].val)
                /\ ret[p].val.street_num # <<"?">>
                /\ ret[p].val.address # <<"unknown">>

\* C19 witness: the cache refused the entry and reverse_geocode still
\* returned the fields of the answer.
LateFailureWitness ==
    \E p \in Procs :
       /\ LateFailure(p)
       /\ op[p] = "reverse_geocode"
       /\ ret[p].log = "unexpected"
       /\ ret[p].val.street = <<"Amphitheatre Pkwy">>
       /\ ret[p].val.city = <<"Mountain View">>
       /\ Key5(arg[p].latlng) \notin DOMAIN cache_reverse

\* the days of the month of a date, from the calendar
DaysInMonth(date) ==
    IF date[2] = 2
    THEN (IF date[1] \in {2024, 2028} THEN 29 ELSE 28)
    ELSE <<31, 0, 31, 30, 31, 30, 31, 31, 30, 31, 30, 31>>[date[2]]

\* C20: every write to the cache by geocode or reverse_geocode carries an
\* expiration e with now + days_in_current_month <= e <=
\* now + days_in_current_month + maxFuzzDays, in whole days (so that with
\* maxFuzzDays = 0 the entry lives exactly the days of the month).
ExpirationInRange ==
    \A p \in Procs :
       (pc[p] = "done" /\ ret[p].wrote) =>
          /\ op[p] \in {"geocode", "reverse_geocode"}
          /\ ret[p].exp.now \in Dates
          /\ ret[p].exp.days >= DaysInMonth(ret[p].exp.now)
          /\ ret[p].exp.days <= DaysInMonth(ret[p].exp.now) + _max_fuzz_days

\* C20 witness: an entry written in February of a leap year lives the 29
\* days of the month and the whole fuzz.
ExpirationWitness ==
    \E p \in Procs :
       /\ pc[p] = "done"
       /\ ret[p].wrote
       /\ op[p] = "reverse_geocode"
       /\ ret[p].exp.now = <<2024, 2>>
       /\ ret[p].exp.days = 29 + _max_fuzz_days

====
